---- MODULE Spec2Model ----
(***************************************************************************)
(* A model of bin/StripChromeSymbols.py: one sequential run of main() and  *)
(* of run_and_look_for_matches(), over an abstract file system, process    *)
(* environment and the text the external tools print.                      *)
(*                                                                         *)
(* Strings that the code only compares or concatenates are sequences of    *)
(* tokens (a signature is its groups and its dashes); a path is a record   *)
(* naming its directory and its file.                                      *)
(*                                                                         *)
(* run_and_look_for_matches() is a module-level function that uses         *)
(* symcache_files, retrieve_path, local_symbol_files, tempdirs and         *)
(* pdbcopy_path, which main() binds as its own locals. Python resolves a   *)
(* free name of a function in the module's globals, so the first use       *)
(* (line 78) raises NameError; Bound states the rule and ProcessLine and   *)
(* AfterScan keep the statements that follow as the source has them.       *)
(***************************************************************************)
EXTENDS Integers, Sequences, FiniteSets, TLC

\* ------------------------------------------------------------- bounds

\* The longest enumerator output (number of lines) the model draws.
MaxLines == 3

\* ---------------------------------------------------------- data: strings

Range(s) == {s[i] : i \in 1..Len(s)}

RECURSIVE Count(_, _)
\* str.count(tok) over a token sequence.
Count(s, tok) ==
  IF s = <<>> THEN 0
  ELSE (IF Head(s) = tok THEN 1 ELSE 0) + Count(Tail(s), tok)

RECURSIVE ReplaceFirstDash(_)
\* guid.replace("-", "", 1): a replace that stops after the first dash.
ReplaceFirstDash(s) ==
  IF s = <<>> THEN <<>>
  ELSE IF Head(s) = "-" THEN Tail(s)
  ELSE <<Head(s)>> \o ReplaceFirstDash(Tail(s))

RECURSIVE ReplaceDashes(_)
\* guid.replace("-", ""): every occurrence is removed, left to right.
ReplaceDashes(s) ==
  IF s = <<>> THEN <<>>
  ELSE IF Head(s) = "-" THEN ReplaceDashes(Tail(s))
  ELSE <<Head(s)>> \o ReplaceDashes(Tail(s))

\* r"c:\symcache\chrome.dll-%s%sv2.symcache" % (guid, age)
SymcachePrefix == <<"c:\\symcache\\chrome.dll", "-">>
SymcacheSuffix == <<"v2.symcache">>
SymcacheFile(guid, age) == SymcachePrefix \o guid \o age \o SymcacheSuffix

\* ------------------------------------------------- data: enumerator lines

\* Signatures as the enumerator prints them, by groups and dashes.
Guid1 == <<"AAAAAAAA", "-", "BBBB", "-", "CCCC", "-", "DDDD", "-", "EEEEEEEEEEEE">>
Guid2 == <<"be90dbc6", "-", "fe31", "-", "4842", "-", "9c72", "-", "7e2e", "-", "a88f0adf">>
Guid3 == <<"0123", "-", "4567", "-", "89ab", "-", "cdef">>

\* A line of the enumerator's output: whether it has the form
\* "[RSDS] PdbSig: {sig}; Age: age; Pdb: path", and the binary it names.
Line(form, binary, sig, age, pdb) ==
  [form |-> form, binary |-> binary, sig |-> sig, age |-> age, pdb |-> pdb]

LinePool ==
  { Line("rsds", "chrome.dll", Guid1, <<"3">>, "C:\\x\\chrome.dll.pdb"),
    Line("rsds", "chrome_child.dll", Guid2, <<"1">>, "C:\\b\\chrome_child.dll.pdb"),
    Line("rsds", "ntdll.dll", Guid1, <<"3">>, "ntdll.pdb"),
    Line("text", "chrome.dll", <<>>, <<>>, ""),
    Line("rsds", "chrome.dll", Guid3, <<"2">>, "C:\\x\\chrome.dll.pdb") }

\* Every enumerator output of at most MaxLines lines.
Traces == UNION {[1..n -> LinePool] : n \in 0..MaxLines}

\* A test that takes every line for a candidate.
AnyLine(line) == TRUE

\* line.count("chrome.dll") > 0 or line.count("chrome_child.dll") > 0
Watched(line) == line.binary \in {"chrome.dll", "chrome_child.dll"}

\* pdb_re.match(line): the structured form, with four dashes or more in
\* the braces (the pattern is {(.*-.*-.*-.*-.*)}).
PdbReMatch(line) == line.form = "rsds" /\ Count(line.sig, "-") >= 4

\* ------------------------------------------------------ data: the world

\* for third_party in ["pdbcopy.exe", "dbghelp.dll", "symsrv.dll"]
ThirdParty == <<"pdbcopy.exe", "dbghelp.dll", "symsrv.dll">>

File(dir, name) == [dir |-> dir, name |-> name]

\* os.path.split(sys.argv[0])[0]: "." when the script is started from its
\* own directory, "bin" when it is started from elsewhere.
ScriptDirs == {".", "bin"}

\* The tool files that may exist before the run. The working directory is
\* "."; the sibling directory is ..\third_party of the script directory.
ToolFiles(dir) ==
  {File(".", n) : n \in Range(ThirdParty)}
    \cup {File(dir, n) : n \in {"pdbcopy.exe", "RetrieveSymbols.exe"}}
    \cup {File("third_party", n) : n \in Range(ThirdParty)}

\* One element of a semicolon-separated symbol search path.
PathElem(kind, n) == [kind |-> kind, n |-> n]

\* os.environ.get("_NT_SYMBOL_PATH", ""): unset, set without the Chromium
\* symbol server, set with it.
SymbolPaths ==
  { <<>>,
    <<PathElem("msdl", 0)>>,
    <<PathElem("msdl", 0), PathElem("chromium-browser-symsrv", 0)>> }

\* symbol_path.count("chromium-browser-symsrv")
MarkerCount(path) ==
  Cardinality({i \in 1..Len(path) : path[i].kind = "chromium-browser-symsrv"})

\* The cache files and the local PDBs the pool's lines can name.
PoolSymcacheFiles ==
  {SymcacheFile(ReplaceDashes(l.sig), l.age) : l \in {m \in LinePool : Watched(m) /\ PdbReMatch(m)}}
PoolPdbs == {l.pdb : l \in {m \in LinePool : Watched(m) /\ PdbReMatch(m)}}

\* A local symbol file, under its own name or under its name + "x".
Pdb(path, x) == [path |-> path, x |-> x]

\* ------------------------------------------------------ data: scoping

\* The names run_and_look_for_matches binds itself (its parameter and the
\* targets of its assignments and for loops).
FunctionLocals ==
  { "command", "found_uncached", "pdb_re", "pdb_cached_re", "command_output",
    "line", "match", "guid", "age", "path", "filepart", "symcache_file",
    "pdb_cache_path", "retrieve_ommand", "subline", "cache_match", "tempdir",
    "dest_path", "copyline" }

\* The names bound at module level: the imports and the two functions.
\* main() binds tempdirs, symcache_files, local_symbol_files, retrieve_path
\* and pdbcopy_path as its own locals, which no other function sees.
ModuleGlobals ==
  { "print_function", "os", "sys", "re", "tempfile", "shutil", "subprocess",
    "run_and_look_for_matches", "main" }

\* Whether a name used in run_and_look_for_matches is bound there: a local
\* of the function or a global of the module. A use of any other name
\* raises NameError.
Bound(name) == name \in FunctionLocals \cup ModuleGlobals

\* ------------------------------------------------------------- state

VARIABLES
  pc,                 \* where main() is
  hasArg,             \* len(sys.argv) >= 2
  script_dir,         \* os.path.split(sys.argv[0])[0]
  env,                \* os.environ["_NT_SYMBOL_PATH"]
  tools,              \* the tool and support files that exist
  symcache,           \* the files that exist under c:\symcache
  pdbs,               \* the local symbol files that exist
  symsrv,             \* the cache files whose PDB the symbol server holds
  tempExisting,       \* the temporary directories that exist
  copyIdx,            \* the position of the support-file loop
  command_output,     \* the enumerator's lines
  idx,                \* the position of the scan loop
  found_uncached,
  symcache_files,
  local_symbol_files,
  tempdirs,
  output,             \* the lines printed
  calls,              \* the external tools invoked, in order
  copied,             \* the support files copied by shutil.copy2
  checked,            \* the cache names os.path.exists was asked, by line
  renames,            \* the number of os.rename calls made
  exitStatus,         \* the process exit status, -1 while running
  fault               \* the exception that ended the run, "none" otherwise

vars ==
  << pc, hasArg, script_dir, env, tools, symcache, pdbs, symsrv, tempExisting,
     copyIdx, command_output, idx, found_uncached, symcache_files,
     local_symbol_files, tempdirs, output, calls, copied, checked, renames,
     exitStatus, fault >>

world == << hasArg, script_dir, symsrv >>
scan == << command_output, idx, found_uncached, symcache_files,
           local_symbol_files, tempdirs, checked >>

Printed(msg, n) == [msg |-> msg, n |-> n]
Call(tool, n) == [tool |-> tool, n |-> n, env |-> env, pdbs |-> pdbs]

\* The state when main() is entered. The preflight reads only the tool
\* files and the scan only the cache, the local PDBs and the symbol
\* server, so the two are varied one at a time: every set of tool files
\* with nothing cached, local or on the server, and every such world with
\* every tool file in place.
Init ==
  /\ pc = "args"
  /\ hasArg \in BOOLEAN
  /\ script_dir \in ScriptDirs
  /\ env \in SymbolPaths
  /\ tools \in SUBSET ToolFiles(script_dir)
  /\ symcache \in SUBSET PoolSymcacheFiles
  /\ pdbs \in {{Pdb(p, FALSE) : p \in ps} : ps \in SUBSET PoolPdbs}
  /\ symsrv \in SUBSET PoolSymcacheFiles
  /\ tools # ToolFiles(script_dir) => (symcache = {} /\ pdbs = {} /\ symsrv = {})
  /\ tempExisting = {}
  /\ copyIdx = 1
  /\ command_output = <<>>
  /\ idx = 1
  /\ found_uncached = FALSE
  /\ symcache_files = <<>>
  /\ local_symbol_files = <<>>
  /\ tempdirs = <<>>
  /\ output = <<>>
  /\ calls = <<>>
  /\ copied = {}
  /\ checked = <<>>
  /\ renames = 0
  /\ exitStatus = -1
  /\ fault = "none"

\* sys.exit(0), or the return of main().
Exit0 == pc' = "exited" /\ exitStatus' = 0 /\ fault' = "none"

\* An exception nothing catches: the interpreter prints the traceback and
\* the process ends with status 1.
Raise(exc) == pc' = "exited" /\ exitStatus' = 1 /\ fault' = exc

\* ------------------------------------------------------------ preflight

\* if len(sys.argv) < 2: usage, exit
CheckArgs ==
  /\ pc = "args"
  /\ IF ~hasArg
       THEN /\ output' = Append(output, Printed("Usage", 0))
            /\ Exit0
       ELSE /\ pc' = "symbol_path"
            /\ UNCHANGED <<output, exitStatus, fault>>
  /\ UNCHANGED <<world, scan, env, tools, symcache, pdbs, tempExisting, copyIdx,
                 calls, copied, renames>>

\* A marker test that only notices an unset variable.
NoSymbolPath(path) == path = <<>>

\* The guard of the marker test: symbol_path.count(marker) == 0.
NoMarker(path) == MarkerCount(path) = 0

\* if the marker is not in _NT_SYMBOL_PATH: message, exit
CheckSymbolPath ==
  /\ pc = "symbol_path"
  /\ IF NoMarker(env)
       THEN /\ output' = Append(output, Printed("Chromium symbol server is not in _NT_SYMBOL_PATH", 0))
            /\ Exit0
       ELSE /\ pc' = "copy"
            /\ UNCHANGED <<output, exitStatus, fault>>
  /\ UNCHANGED <<world, scan, env, tools, symcache, pdbs, tempExisting, copyIdx,
                 calls, copied, renames>>

\* One turn of the support-file loop: a file missing from the working
\* directory is copied from ..\third_party into the script directory;
\* shutil.copy2 raises when its source does not exist.
CopySupportFile ==
  /\ pc = "copy"
  /\ copyIdx <= Len(ThirdParty)
  /\ LET third == ThirdParty[copyIdx]
         source == File("third_party", third)
         dest == File(script_dir, third)
     IN IF File(".", third) \in tools
          THEN /\ copyIdx' = copyIdx + 1
               /\ UNCHANGED <<pc, tools, copied, exitStatus, fault>>
          ELSE IF source \in tools
            THEN /\ tools' = tools \cup {dest}
                 /\ copied' = copied \cup {third}
                 /\ copyIdx' = copyIdx + 1
                 /\ UNCHANGED <<pc, exitStatus, fault>>
            ELSE /\ Raise("IOError")
                 /\ UNCHANGED <<tools, copied, copyIdx>>
  /\ UNCHANGED <<world, scan, env, symcache, pdbs, tempExisting, output, calls,
                 renames>>

\* if not os.path.exists(pdbcopy_path): message, exit
CheckPdbcopy ==
  /\ pc = "copy"
  /\ copyIdx > Len(ThirdParty)
  /\ IF File(script_dir, "pdbcopy.exe") \notin tools
       THEN /\ output' = Append(output, Printed("pdbcopy.exe not found", 0))
            /\ Exit0
       ELSE /\ pc' = "retrieve_path"
            /\ UNCHANGED <<output, exitStatus, fault>>
  /\ UNCHANGED <<world, scan, env, tools, symcache, pdbs, tempExisting, copyIdx,
                 calls, copied, renames>>

\* if not os.path.exists(retrieve_path): message, exit
CheckRetrieve ==
  /\ pc = "retrieve_path"
  /\ IF File(script_dir, "RetrieveSymbols.exe") \notin tools
       THEN /\ output' = Append(output, Printed("RetrieveSymbols.exe not found", 0))
            /\ Exit0
       ELSE /\ pc' = "scan_start"
            /\ UNCHANGED <<output, exitStatus, fault>>
  /\ UNCHANGED <<world, scan, env, tools, symcache, pdbs, tempExisting, copyIdx,
                 calls, copied, renames>>

\* ----------------------------------------------------------------- scan

\* The banner, the echoed command, and os.popen(command).readlines(): the
\* enumerator prints any text.
StartScan ==
  /\ pc = "scan_start"
  /\ \E t \in Traces : command_output' = t
  /\ idx' = 1
  /\ output' = output \o <<Printed("Pre-translating chrome symbols", 0),
                           Printed("> xperf -dbgid", 0)>>
  /\ calls' = Append(calls, Call("xperf -dbgid", 0))
  /\ pc' = "scan"
  /\ UNCHANGED <<world, env, tools, symcache, pdbs, tempExisting, copyIdx,
                 found_uncached, symcache_files, local_symbol_files, tempdirs,
                 copied, checked, renames, exitStatus, fault>>

\* guid = guid.replace("-", ""); symcache_file = prefix + guid + age + suffix
LineSymcacheFile(line) == SymcacheFile(ReplaceDashes(line.sig), line.age)

\* The test of the cache file without its continue: no reference is
\* passed over.
NeverCached(name) == FALSE

\* os.path.exists(symcache_file), then continue
AlreadyCached(name) == name \in symcache

\* tempfile.mkdtemp(): a directory that did not exist.
NewTempDir == PathElem("tmp", Cardinality(tempExisting) + 1)

\* One turn of the loop of run_and_look_for_matches over one line. A line
\* that does not name a watched binary, or is not of the structured form,
\* or whose cache file exists, is passed over. For any other line the
\* function sets found_uncached, prints the reference and then uses
\* symcache_files, which is a local of main(): NameError. The rest of the
\* turn (retrieve_path, local_symbol_files, tempdirs and pdbcopy_path are
\* locals of main() as well) is what the statements after it do.
ProcessLine ==
  /\ pc = "scan"
  /\ idx <= Len(command_output)
  /\ LET line == command_output[idx]
         name == LineSymcacheFile(line)
         retrieved == name \in symsrv
         local == ~retrieved /\ Pdb(line.pdb, FALSE) \in pdbs
         tempdir == NewTempDir
     IN IF ~(Watched(line) /\ PdbReMatch(line))
          THEN /\ idx' = idx + 1
               /\ UNCHANGED <<pc, found_uncached, symcache_files, local_symbol_files,
                              tempdirs, tempExisting, output, calls, checked,
                              exitStatus, fault>>
          ELSE
            /\ checked' = Append(checked, [n |-> idx, name |-> name])
            /\ IF AlreadyCached(name)
                 THEN /\ idx' = idx + 1
                      /\ UNCHANGED <<pc, found_uncached, symcache_files,
                                     local_symbol_files, tempdirs, tempExisting,
                                     output, calls, exitStatus, fault>>
                 ELSE
                   /\ found_uncached' = TRUE
                   /\ IF ~Bound("symcache_files")
                        THEN /\ output' = Append(output, Printed("Found uncached reference", idx))
                             /\ Raise("NameError")
                             /\ UNCHANGED <<idx, symcache_files, local_symbol_files,
                                            tempdirs, tempExisting, calls>>
                        ELSE
                          /\ symcache_files' = Append(symcache_files, name)
                          /\ local_symbol_files' =
                               IF local THEN Append(local_symbol_files, line.pdb)
                               ELSE local_symbol_files
                          /\ IF retrieved \/ local
                               THEN /\ tempdirs' = Append(tempdirs, tempdir)
                                    /\ tempExisting' = tempExisting \cup {tempdir}
                                    /\ calls' = calls \o <<Call("RetrieveSymbols.exe", idx),
                                                           Call("pdbcopy.exe", idx)>>
                                    /\ output' = output \o
                                         <<Printed("Found uncached reference", idx),
                                           Printed("> RetrieveSymbols.exe", idx),
                                           Printed("Copying PDB", idx)>>
                               ELSE /\ calls' = Append(calls, Call("RetrieveSymbols.exe", idx))
                                    /\ output' = output \o
                                         <<Printed("Found uncached reference", idx),
                                           Printed("> RetrieveSymbols.exe", idx),
                                           Printed("Failed to retrieve symbols", idx)>>
                                    /\ UNCHANGED <<tempdirs, tempExisting>>
                          /\ idx' = idx + 1
                          /\ UNCHANGED <<pc, exitStatus, fault>>
  /\ UNCHANGED <<world, env, tools, symcache, pdbs, copyIdx, command_output,
                 copied, renames>>

\* ------------------------------------------------------- cache rebuild

RECURSIVE RenameAll(_, _, _)
\* for local_pdb in local_symbol_files: os.rename between the name and the
\* name + "x" (toX: to the name + "x"). os.rename raises when its source
\* does not exist or its destination does; the loop stops there.
RenameAll(paths, files, toX) ==
  IF paths = <<>> THEN [files |-> files, n |-> 0, ok |-> TRUE]
  ELSE LET src == Pdb(Head(paths), ~toX)
           dst == Pdb(Head(paths), toX)
       IN IF src \notin files \/ dst \in files
            THEN [files |-> files, n |-> 1, ok |-> FALSE]
            ELSE LET rest == RenameAll(Tail(paths), (files \ {src}) \cup {dst}, toX)
                 IN [files |-> rest.files, n |-> rest.n + 1, ok |-> rest.ok]

\* The printed lines of the verification loop over symcache_files.
VerifyLines(files, existing) ==
  [i \in 1..Len(files) |->
     IF files[i] \in existing THEN Printed("generated", i)
     ELSE Printed("Error: not generated", i)]

\* What main() does after the scan returns: with temporary directories,
\* repoint _NT_SYMBOL_PATH, rename the local PDBs, run the enumerator in
\* build mode, rename the PDBs back, verify the cache files and delete the
\* directories unless one is missing; without, one closing line.
AfterScan ==
  /\ pc = "scan"
  /\ idx > Len(command_output)
  /\ IF tempdirs # <<>>
       THEN LET away == RenameAll(local_symbol_files, pdbs, TRUE)
            IN /\ env' = tempdirs
               /\ IF ~away.ok
                    THEN /\ pdbs' = away.files
                         /\ renames' = renames + away.n
                         /\ output' = Append(output, Printed("Stripped PDBs are in", 0))
                         /\ Raise("OSError")
                         /\ UNCHANGED <<symcache, tempExisting, calls>>
                    ELSE \E generated \in SUBSET Range(symcache_files) :
                      LET back == RenameAll(local_symbol_files, away.files, FALSE)
                          existing == symcache \cup generated
                          error == \E f \in Range(symcache_files) : f \notin existing
                      IN /\ symcache' = existing
                         /\ calls' = Append(calls,
                              [tool |-> "xperf -build", n |-> 0, env |-> tempdirs,
                               pdbs |-> away.files])
                         /\ pdbs' = back.files
                         /\ renames' = renames + away.n + back.n
                         /\ IF ~back.ok
                              THEN /\ output' = output \o
                                        <<Printed("Stripped PDBs are in", 0),
                                          Printed("> xperf -build", 0)>>
                                   /\ Raise("OSError")
                                   /\ UNCHANGED tempExisting
                              ELSE /\ output' = output \o
                                        <<Printed("Stripped PDBs are in", 0),
                                          Printed("> xperf -build", 0)>>
                                        \o VerifyLines(symcache_files, existing)
                                        \o (IF error THEN <<Printed("Retaining PDBs", 0)>>
                                            ELSE <<>>)
                                   /\ tempExisting' =
                                        IF error THEN tempExisting
                                        ELSE tempExisting \ Range(tempdirs)
                                   /\ Exit0
       ELSE /\ output' = Append(output,
                 IF found_uncached THEN Printed("No PDBs copied, nothing to do.", 0)
                 ELSE Printed("No uncached PDBS found, nothing to do.", 0))
            /\ Exit0
            /\ UNCHANGED <<env, symcache, pdbs, tempExisting, calls, renames>>
  /\ UNCHANGED <<world, scan, tools, copyIdx, copied>>

\* ---------------------------------------------------------- behaviours

Next ==
  \/ CheckArgs
  \/ CheckSymbolPath
  \/ CopySupportFile
  \/ CheckPdbcopy
  \/ CheckRetrieve
  \/ StartScan
  \/ ProcessLine
  \/ AfterScan

Spec == Init /\ [][Next]_vars

\* --------------------------------------------------------------- claims

\* Helpers of the statements below, written from the claims' words.
WatchedName(l) == l.binary = "chrome.dll" \/ l.binary = "chrome_child.dll"
Structured(l) == l.form = "rsds"
IsDash(t) == t = "-"
NotDash(t) == t # "-"
ExpectedCacheName(l) ==
  <<"c:\\symcache\\chrome.dll", "-">> \o SelectSeq(l.sig, NotDash) \o l.age
    \o <<"v2.symcache">>
Candidate(i) ==
  /\ WatchedName(command_output[i])
  /\ Structured(command_output[i])
  /\ Len(SelectSeq(command_output[i].sig, IsDash)) >= 4
HasPrinted(msg, i) == \E k \in 1..Len(output) : output[k] = Printed(msg, i)
Invoked(tool) == {k \in 1..Len(calls) : calls[k].tool = tool}
InvokedFor(tool, i) == \E k \in 1..Len(calls) : calls[k].tool = tool /\ calls[k].n = i
Scanned == pc = "exited" /\ Invoked("xperf -dbgid") # {}

\* The cases of C2, C3, C4 and C10 (a temporary directory created, a
\* reference stripped, the enumerator run in build mode, a file renamed)
\* are never reached: the NameError of line 78 ends every run that finds an
\* uncached reference before anything is recorded, retrieved or stripped.
RebuildIsUnreachable ==
  /\ symcache_files = <<>> /\ local_symbol_files = <<>> /\ tempdirs = <<>>
  /\ tempExisting = {} /\ renames = 0
  /\ Invoked("RetrieveSymbols.exe") = {} /\ Invoked("pdbcopy.exe") = {}
  /\ Invoked("xperf -build") = {}
  /\ (found_uncached => (pc = "exited" /\ fault = "NameError"))

\* C1 (as stated): every terminating path ends with exit status 0 and no
\* path ends with an unhandled fault.
C1_EveryExitIsStatusZero ==
  pc = "exited" => (exitStatus = 0 /\ fault = "none")

\* C5: a matched reference whose cache file exists leaves no trace (no
\* message, no retrieval, no stripping, nothing recorded), and a run all of
\* whose matched references are cached retrieves and strips nothing,
\* creates no temporary directory, renames no file and never runs the
\* enumerator in build mode.
C5_CachedReferenceIsSkipped ==
  /\ \A i \in 1..Len(command_output) :
       (Candidate(i) /\ ExpectedCacheName(command_output[i]) \in symcache) =>
         /\ ~HasPrinted("Found uncached reference", i)
         /\ ~HasPrinted("> RetrieveSymbols.exe", i)
         /\ ~HasPrinted("Copying PDB", i)
         /\ ~HasPrinted("Failed to retrieve symbols", i)
         /\ ~InvokedFor("RetrieveSymbols.exe", i)
         /\ ~InvokedFor("pdbcopy.exe", i)
  /\ (\A i \in 1..Len(command_output) :
        Candidate(i) => ExpectedCacheName(command_output[i]) \in symcache) =>
       /\ ~found_uncached
       /\ symcache_files = <<>> /\ local_symbol_files = <<>>
       /\ Invoked("RetrieveSymbols.exe") = {} /\ Invoked("pdbcopy.exe") = {}
       /\ Invoked("xperf -build") = {}
       /\ tempdirs = <<>> /\ tempExisting = {} /\ renames = 0

\* C5 witness: a finished run whose trace holds a matched reference, all
\* of them cached.
C5_Witness ==
  /\ Scanned
  /\ \E i \in 1..Len(command_output) : Candidate(i)
  /\ \A i \in 1..Len(command_output) :
       Candidate(i) => ExpectedCacheName(command_output[i]) \in symcache

\* C6 (as stated): an uncached reference whose symbols the retrieval tool
\* does not find and whose PDB does not exist locally gets the "Failed to
\* retrieve symbols" message, no temporary directory and no stripping
\* call, and the scan goes on over every remaining line.
C6_FailedRetrievalIsReportedAndScanGoesOn ==
  Scanned =>
    \A i \in 1..Len(command_output) :
      ( /\ Candidate(i)
        /\ ExpectedCacheName(command_output[i]) \notin symcache
        /\ ExpectedCacheName(command_output[i]) \notin symsrv
        /\ Pdb(command_output[i].pdb, FALSE) \notin pdbs ) =>
        /\ HasPrinted("Failed to retrieve symbols", i)
        /\ ~InvokedFor("pdbcopy.exe", i)
        /\ idx > Len(command_output)

C8_NoMarkerNoWork ==
  /\ [](MarkerCount(env) = 0 =>
          /\ calls = <<>> /\ copied = {}
          /\ tempdirs = <<>> /\ tempExisting = {} /\ renames = 0
          /\ \A f \in pdbs : ~f.x
          /\ (pc = "exited" => exitStatus = 0))
  /\ [][MarkerCount(env) = 0 => env' = env]_vars

\* C8 witness: a run with a trace argument and a symbol search path that
\* is set but lacks the marker has exited.
C8_Witness ==
  /\ pc = "exited" /\ hasArg /\ env # <<>> /\ MarkerCount(env) = 0
  /\ HasPrinted("Chromium symbol server is not in _NT_SYMBOL_PATH", 0)

\* C9 (as stated): a trace with no line naming a watched binary ends with
\* exit status 0 having printed only the two scan-start lines.
C9_OnlyScanStartLines ==
  (Scanned /\ \A i \in 1..Len(command_output) : ~WatchedName(command_output[i])) =>
    /\ exitStatus = 0
    /\ Invoked("RetrieveSymbols.exe") = {} /\ Invoked("pdbcopy.exe") = {}
    /\ output = <<Printed("Pre-translating chrome symbols", 0),
                  Printed("> xperf -dbgid", 0)>>

\* C9 (amended): a trace with no line naming a watched binary ends with
\* exit status 0, no retrieval and no stripping, having printed the two
\* scan-start lines and then the one line "No uncached PDBS found,
\* nothing to do."
C9_ScanStartLinesThenNothingToDo ==
  (Scanned /\ \A i \in 1..Len(command_output) : ~WatchedName(command_output[i])) =>
    /\ exitStatus = 0
    /\ Invoked("RetrieveSymbols.exe") = {} /\ Invoked("pdbcopy.exe") = {}
    /\ output = <<Printed("Pre-translating chrome symbols", 0),
                  Printed("> xperf -dbgid", 0),
                  Printed("No uncached PDBS found, nothing to do.", 0)>>

\* C9 witness: a finished scan of a non-empty trace that names no watched
\* binary.
C9_Witness ==
  /\ Scanned
  /\ command_output # <<>>
  /\ \A i \in 1..Len(command_output) : ~WatchedName(command_output[i])
====
